---- MODULE Spec2Model ----
(***************************************************************************)
(* release:gen-payload of doozerlib (doozerlib/cli/release_gen_payload.py) *)
(* as a state machine: the image filter, find_embargoed_builds with its    *)
(* shipping-status cache, the mirror planning loop and the per-key output  *)
(* loop.                                                                   *)
(*                                                                         *)
(* Strings are sequences of tokens ("ose-", "cli", ":", ".p1", ...), so    *)
(* that startswith / endswith / `in` / replace / slicing are computed and  *)
(* not assumed.  Answers of Brew that the code reads field by field (the   *)
(* rpm list of an archive, the arch / pullspecs / digest of an archive)    *)
(* are drawn at the step that first reads them.                            *)
(***************************************************************************)
EXTENDS Integers, Sequences, FiniteSets, TLC

\* ------------------------------------------------------------------ bounds
\* archives Brew returns per image build
MaxArchives == 2
\* rpm records Brew returns per image archive
MaxRpms == 2

\* ------------------------------------------------------------ input domains
\* runtime.image_metas(): the image inventory, by image_name_short
ImageNames == << <<"ose-", "cli">>, <<"my-", "operator">>, <<"ose-", "kuryr">> >>
Arches == {"x86_64", "ppc64le"}
\* build ids of the rpm builds that image archives may contain
PkgBuildIds == {11, 12}
Releases == { <<"1", ".p0">>, <<"1", ".p1">> }
CandidateTag == [name |-> <<"rhaos-4.5-rhel-8", "-candidate">>]
ReleasedTag == [name |-> <<"RHBA-2020:2713", "-released">>]
\* tag lists of image builds and of rpm builds: not shipped, or shipped
ImageTagLists == { <<>>, <<CandidateTag, ReleasedTag>> }
PkgTagLists == { <<CandidateTag>>, <<CandidateTag, ReleasedTag>> }
is_name == <<"4.5-art-latest">>
is_namespace == <<"ocp">>
orgrepo == <<"openshift-release-dev", "/", "ocp-v4.0-art-dev">>

\* ------------------------------------------------------------ str methods
StartsWith(s, p) == Len(s) >= Len(p) /\ SubSeq(s, 1, Len(p)) = p
EndsWith(s, p) == Len(s) >= Len(p) /\ SubSeq(s, Len(s) - Len(p) + 1, Len(s)) = p
Contains(s, p) == \E n \in 0..(Len(s) - Len(p)) : SubSeq(s, n + 1, n + Len(p)) = p
Replace(s, a, b) == [n \in 1..Len(s) |-> IF s[n] = a THEN b ELSE s[n]]
SeqsUpTo(S, n) == UNION {[1..m -> S] : m \in 0..n}
EmptyMap == [x \in {} |-> x]

VARIABLES
  pc,                     \* position in release_gen_payload / find_embargoed_builds
  public_upstreams,       \* runtime.group_config.public_upstreams
  ose_prefixed_images,    \* line 80
  invalid_name_items,     \* line 78
  no_build_items,         \* line 77
  latest_builds,          \* line 95: per ose image, <<>> or <<build>>
  archives_list,          \* line 99: per ose image, its archives (id, build_id)
  builds_tags,            \* Brew's answer to getBuild tags, per build id
  embargoed_build_ids,    \* line 101 / 288
  suspect_archives,       \* line 293
  index,                  \* line 299: position in suspect_rpm_lists
  rpm_shipping_statuses,  \* line 297: the cache
  tag_queries,            \* the batches has_unshipped_rpms sent to get_builds_tags
  holds_unshipped_rpm,    \* image builds one of whose archives holds, in Brew, an unshipped `.p1` rpm
  i,                      \* line 111: position in ose_prefixed_images
  archive_idx,            \* line 120: position in archives
  mirroring,              \* line 110
  key_order,              \* insertion order of the keys of mirroring
  lstate,                 \* line 72: images recorded as success / failure
  bad_digests,            \* archives read whose digest lacks the prefix, by how they were handled
  key_idx,                \* line 151: position in the keys of mirroring
  mirror_files,           \* src_dest.{key}
  is_files,               \* image_stream.{key}.yaml
  warned                  \* keys for which line 226 logged the warning

emb_vars == <<embargoed_build_ids, suspect_archives, index, rpm_shipping_statuses,
              tag_queries, holds_unshipped_rpm>>
input_vars == <<public_upstreams, latest_builds, archives_list, builds_tags>>
filter_vars == <<ose_prefixed_images, invalid_name_items>>
plan_vars == <<i, archive_idx, mirroring, key_order, lstate, bad_digests, no_build_items>>
out_vars == <<key_idx, mirror_files, is_files, warned>>
vars == <<pc, input_vars, filter_vars, emb_vars, plan_vars, out_vars>>

\* ---------------------------------------------------------------- lines 74-90
HasOsePrefix(name) == StartsWith(name, <<"ose-">>)
OsePrefixed(images) == SelectSeq(images, HasOsePrefix)
InvalidNames(images) == SelectSeq(images, LAMBDA n : ~HasOsePrefix(n))
NumOse == Len(OsePrefixed(ImageNames))

\* Brew build ids: the image build of ose image n has id n.

Init ==
  /\ pc = "start"
  /\ public_upstreams \in BOOLEAN
  /\ \E present \in [1..NumOse -> BOOLEAN], rel \in [1..NumOse -> Releases],
        count \in [1..NumOse -> 0..MaxArchives] :
       /\ \A n \in 1..NumOse : ~present[n] => (count[n] = 0 /\ rel[n] = <<"1", ".p0">>)
       /\ latest_builds = [n \in 1..NumOse |->
             IF present[n]
             THEN << [id |-> n, version |-> <<"v4.5.0">>, release |-> rel[n]] >>
             ELSE <<>>]
       /\ archives_list = [n \in 1..NumOse |->
             [a \in 1..count[n] |-> [id |-> 10 * n + a, build_id |-> n]]]
  /\ \E it \in [1..NumOse -> ImageTagLists], pt \in [PkgBuildIds -> PkgTagLists] :
       builds_tags = [b \in (1..NumOse) \cup PkgBuildIds |->
                        IF b \in PkgBuildIds THEN pt[b] ELSE it[b]]
  \* tags are only ever fetched by find_embargoed_builds, for builds that exist
  /\ \A n \in 1..NumOse : latest_builds[n] = <<>> => builds_tags[n] = <<>>
  /\ ~public_upstreams =>
       /\ \A n \in 1..NumOse : builds_tags[n] = <<>>
       /\ \A p \in PkgBuildIds : builds_tags[p] = <<CandidateTag>>
  /\ ose_prefixed_images = <<>>
  /\ invalid_name_items = <<>>
  /\ no_build_items = <<>>
  /\ embargoed_build_ids = {}
  /\ suspect_archives = <<>>
  /\ index = 1
  /\ rpm_shipping_statuses = EmptyMap
  /\ tag_queries = <<>>
  /\ holds_unshipped_rpm = {}
  /\ i = 1
  /\ archive_idx = 1
  /\ mirroring = EmptyMap
  /\ key_order = <<>>
  /\ lstate = [success |-> {}, failure |-> {}]
  /\ bad_digests = {}
  /\ key_idx = 1
  /\ mirror_files = EmptyMap
  /\ is_files = EmptyMap
  /\ warned = {}

\* lines 74-105: filter the inventory, fetch builds and archives, and enter
\* find_embargoed_builds only when public_upstreams is configured
FilterImages ==
  /\ pc = "start"
  /\ ose_prefixed_images' = OsePrefixed(ImageNames)
  /\ invalid_name_items' = InvalidNames(ImageNames)
  /\ pc' = IF public_upstreams THEN "find_embargoed_builds" ELSE "plan"
  /\ UNCHANGED <<input_vars, emb_vars, plan_vars, out_vars>>

\* ------------------------------------------------ find_embargoed_builds
\* line 104: suspects = [b[0] for b in latest_builds if b]
ResolvedBuilds(lb) ==
  LET some == SelectSeq(lb, LAMBDA b : b # <<>>)
  IN [n \in 1..Len(some) |-> some[n][1]]

\* brew.get_builds_tags: one tag list per build id, in order
get_builds_tags(ids) == [n \in 1..Len(ids) |-> builds_tags[ids[n]]]

\* lines 280-283 and 326-329
IsReleasedMutant(tags) == FALSE
IsReleased(tags) == \E n \in 1..Len(tags) : EndsWith(tags[n].name, <<"-released">>)

\* lines 277-285
RECURSIVE UnshippedFrom(_, _, _)
UnshippedFrom(builds, image_tags_list, n) ==
  IF n > Len(builds) THEN <<>>
  ELSE (IF IsReleased(image_tags_list[n]) THEN <<>> ELSE <<builds[n]>>)
       \o UnshippedFrom(builds, image_tags_list, n + 1)

\* line 288
MarkedEmbargoed(suspects) ==
  {suspects[n].id : n \in {m \in 1..Len(suspects) : EndsWith(suspects[m].release, <<".p1">>)}}

\* line 293
RECURSIVE SuspectArchives(_, _, _)
SuspectArchives(al, suspect_build_ids, n) ==
  IF n > Len(al) THEN <<>>
  ELSE SelectSeq(al[n], LAMBDA ar : ar.build_id \in suspect_build_ids)
       \o SuspectArchives(al, suspect_build_ids, n + 1)

\* rpm records an archive may contain: a `.p1` rpm of either rpm build, and an
\* rpm of the first one whose release carries no `.p1`
RpmRecords ==
  {[build_id |-> p, release |-> <<"3", ".p1", ".el8">>] : p \in PkgBuildIds}
    \cup {[build_id |-> 11, release |-> <<"3", ".el8">>]}
RpmLists == SeqsUpTo(RpmRecords, MaxRpms)

\* an rpm list as Brew holds it for an archive: some record has a release
\* containing `.p1` and its rpm build carries no tag ending `-released`
HoldsUnshippedP1(rpms) ==
  \E n \in 1..Len(rpms) :
     /\ \E m \in 1..Len(rpms[n].release) : rpms[n].release[m] = ".p1"
     /\ \A t \in 1..Len(builds_tags[rpms[n].build_id]) :
          LET name == builds_tags[rpms[n].build_id][t].name
          IN name[Len(name)] # "-released"

\* lines 274-297; the archives that line 293 drops are never read, and what Brew
\* holds for them is settled here
FilterShipped ==
  /\ pc = "find_embargoed_builds"
  /\ LET builds == ResolvedBuilds(latest_builds)
         image_tags_list == get_builds_tags([n \in 1..Len(builds) |-> builds[n].id])
         suspects == UnshippedFrom(builds, image_tags_list, 1)
         marked == MarkedEmbargoed(suspects)
         p0 == SelectSeq(suspects, LAMBDA b : b.id \notin marked)
         suspect_build_ids == {p0[n].id : n \in 1..Len(p0)}
         dropped == {b \in 1..Len(archives_list) :
                       /\ archives_list[b] # <<>>
                       /\ b \notin suspect_build_ids}
     IN /\ embargoed_build_ids' = marked
        /\ suspect_archives' = SuspectArchives(archives_list, suspect_build_ids, 1)
        /\ \E held \in SUBSET dropped :
             /\ held # {} => \E rpms \in RpmLists : HoldsUnshippedP1(rpms)
             /\ holds_unshipped_rpm' = held
  /\ rpm_shipping_statuses' = EmptyMap
  /\ index' = 1
  /\ pc' = "check_rpms"
  /\ UNCHANGED <<input_vars, filter_vars, tag_queries, plan_vars, out_vars>>

\* has_unshipped_rpms, lines 315-317
AnyCachedUnshippedMutant(rpms, statuses) == FALSE
AnyCachedUnshipped(rpms, statuses) ==
  \E n \in 1..Len(rpms) :
     /\ rpms[n].build_id \in DOMAIN statuses
     /\ statuses[rpms[n].build_id] = FALSE

\* has_unshipped_rpms, line 318
UncachedMutant(rpms, statuses) == rpms
Uncached(rpms, statuses) ==
  SelectSeq(rpms, LAMBDA rpm : rpm.build_id \notin DOMAIN statuses)

\* has_unshipped_rpms, lines 324-330: the cache after the first n results are stored
RECURSIVE StoreStatuses(_, _, _, _)
StoreStatuses(statuses, uncached, tag_lists, n) ==
  IF n = 0 THEN statuses
  ELSE LET before == StoreStatuses(statuses, uncached, tag_lists, n - 1)
           id == uncached[n].build_id
       IN [b \in DOMAIN before \cup {id} |->
             IF b = id THEN IsReleased(tag_lists[n]) ELSE before[b]]

\* has_unshipped_rpms, lines 307-333: the returned value, the cache it leaves
\* and the batch it sent to get_builds_tags (none when it returns early)
has_unshipped_rpms(rpms, statuses) ==
  IF AnyCachedUnshipped(rpms, statuses)
  THEN [result |-> TRUE, statuses |-> statuses, batches |-> <<>>]
  ELSE LET uncached == Uncached(rpms, statuses)
           ids == [n \in 1..Len(uncached) |-> uncached[n].build_id]
           tag_lists == get_builds_tags(ids)
       IN IF uncached = <<>>
          THEN [result |-> FALSE, statuses |-> statuses, batches |-> <<>>]
          ELSE [result |-> \E n \in 1..Len(tag_lists) : ~IsReleased(tag_lists[n]),
                statuses |-> StoreStatuses(statuses, uncached, tag_lists, Len(uncached)),
                batches |-> <<ids>>]

\* line 300
SuspectedRpms(rpms) == SelectSeq(rpms, LAMBDA rpm : Contains(rpm.release, <<".p1">>))

\* lines 299-302, one iteration; rpms is suspect_rpm_lists[index], the answer of
\* list_image_rpms for suspect_archives[index]
CheckRpms ==
  /\ pc = "check_rpms"
  /\ index <= Len(suspect_archives)
  /\ \E rpms \in RpmLists :
       LET r == has_unshipped_rpms(SuspectedRpms(rpms), rpm_shipping_statuses)
           build_id == suspect_archives[index].build_id
       IN /\ rpm_shipping_statuses' = r.statuses
          /\ tag_queries' = tag_queries \o r.batches
          /\ embargoed_build_ids' =
               IF r.result THEN embargoed_build_ids \cup {build_id} ELSE embargoed_build_ids
          /\ holds_unshipped_rpm' =
               IF HoldsUnshippedP1(rpms) THEN holds_unshipped_rpm \cup {build_id}
               ELSE holds_unshipped_rpm
  /\ index' = index + 1
  /\ UNCHANGED <<pc, input_vars, filter_vars, suspect_archives, plan_vars, out_vars>>

\* lines 303-304 and 105: return; the locals of the call are gone
ReturnEmbargoed ==
  /\ pc = "check_rpms"
  /\ index > Len(suspect_archives)
  /\ pc' = "plan"
  /\ rpm_shipping_statuses' = EmptyMap
  /\ tag_queries' = <<>>
  /\ holds_unshipped_rpm' = {}
  /\ suspect_archives' = <<>>
  /\ index' = 1
  /\ UNCHANGED <<input_vars, filter_vars, embargoed_build_ids, plan_vars, out_vars>>

\* ------------------------------------------------------- mirror planning
\* line 130: the tag used in the image streams
DisplayTag(image_name_short) ==
  IF HasOsePrefix(image_name_short)
  THEN SubSeq(image_name_short, 2, Len(image_name_short))
  ELSE image_name_short

\* archive["extra"]["docker"]["repositories"] as Brew may return it for an
\* archive of the image on arch
TaggedSpec(name, arch) == <<"registry-proxy/">> \o name \o <<"-", arch, ":", "v4.5.0">>
BareSpec(name, arch) == <<"registry-proxy/">> \o name \o <<"-", arch>>
PullspecLists(name, arch) ==
  { <<>>, <<BareSpec(name, arch)>>, <<BareSpec(name, arch), TaggedSpec(name, arch)>>,
    <<TaggedSpec(name, arch), BareSpec(name, arch)>> }

\* archive["extra"]["docker"]["digests"][...]: the digest of the image of this
\* build on this arch, under either algorithm name
DigestOf(name, arch, alg) == <<alg, ":">> \o DisplayTag(name) \o <<"@", arch>>
Digests(name, arch) == {DigestOf(name, arch, alg) : alg \in {"sha256", "md5"}}

\* line 123
PullspecsUsable(pullspecs) ==
  ~(pullspecs = <<>> \/ ~Contains(pullspecs[Len(pullspecs)], <<":">>))

\* line 132
DigestRecognizedMutant(digest) == TRUE
DigestRecognized(digest) == StartsWith(digest, <<"sha256", ":">>)

\* line 134
MirroringValue(build, pullspecs, digest) ==
  [version |-> build.version, release |-> build.release,
   image_src |-> pullspecs[Len(pullspecs)], digest |-> digest]

\* lines 135-136: the image goes to the public list
AddToPublicMutant(build, embargoed_ids) == TRUE
AddToPublic(build, embargoed_ids) == ~(build.id \in embargoed_ids)

\* line 141: the image goes to the private list
AddToPrivateMutant(build, embargoed_ids) == public_upstreams /\ build.id \in embargoed_ids
AddToPrivate(build, embargoed_ids) == public_upstreams

PrivKey(arch) == <<arch, "-priv">>
PlainKey(arch) == <<arch>>

\* mirroring.setdefault(key, {})[tag_name] = value
SetEntry(m, key, tag_name, value) ==
  LET old == IF key \in DOMAIN m THEN m[key] ELSE EmptyMap
  IN [x \in DOMAIN m \cup {key} |->
        IF x = key
        THEN [t \in DOMAIN old \cup {tag_name} |-> IF t = tag_name THEN value ELSE old[t]]
        ELSE m[x]]

\* dict insertion order after the setdefault of line 138 / 144
Inserted(order, key) ==
  IF \E n \in 1..Len(order) : order[n] = key THEN order ELSE Append(order, key)

RecordFail(ls, image) == [ls EXCEPT !.failure = @ \cup {image}]
RecordSuccess(ls, image) == [ls EXCEPT !.success = @ \cup {image}]

\* the image loop moves on to the next image (lines 145-149 done, back to 111)
NextImage ==
  /\ i' = i + 1
  /\ archive_idx' = 1

\* lines 115-118 and 147-149: no build or no archives
PlanNoBuild ==
  /\ pc = "plan"
  /\ i <= Len(ose_prefixed_images)
  /\ archive_idx = 1
  /\ ~(latest_builds[i] # <<>> /\ archives_list[i] # <<>>)
  /\ no_build_items' = Append(no_build_items, ose_prefixed_images[i])
  /\ lstate' = RecordFail(lstate, ose_prefixed_images[i])
  /\ NextImage
  /\ UNCHANGED <<pc, input_vars, filter_vars, emb_vars, mirroring, key_order,
                 bad_digests, out_vars>>

\* the guard of the archive loop of line 120
AtArchive ==
  /\ pc = "plan"
  /\ i <= Len(ose_prefixed_images)
  /\ latest_builds[i] # <<>>
  /\ archive_idx <= Len(archives_list[i])

\* lines 121-127 and 147-149: the archive has no usable pullspec; the image is
\* recorded as failed and the archive loop is left
PlanPullspecFail ==
  /\ AtArchive
  /\ \E arch \in Arches :
     \E pullspecs \in PullspecLists(ose_prefixed_images[i], arch),
        digest \in Digests(ose_prefixed_images[i], arch) :
       /\ ~PullspecsUsable(pullspecs)
       /\ bad_digests' = IF digest[1] = "sha256" THEN bad_digests
                         ELSE bad_digests \cup {"not examined"}
  /\ lstate' = RecordFail(lstate, ose_prefixed_images[i])
  /\ NextImage
  /\ UNCHANGED <<pc, input_vars, filter_vars, emb_vars, mirroring, key_order,
                 no_build_items, out_vars>>

\* lines 121-133: the digest lacks the prefix; ValueError ends the run
PlanDigestError ==
  /\ AtArchive
  /\ \E arch \in Arches :
     \E pullspecs \in PullspecLists(ose_prefixed_images[i], arch),
        digest \in Digests(ose_prefixed_images[i], arch) :
       /\ PullspecsUsable(pullspecs)
       /\ ~DigestRecognized(digest)
  /\ bad_digests' = bad_digests \cup {"examined"}
  /\ pc' = "ValueError"
  /\ UNCHANGED <<input_vars, filter_vars, emb_vars, i, archive_idx, mirroring, key_order,
                 lstate, no_build_items, out_vars>>

\* lines 121-144: the archive is added to the mirroring lists
PlanAdd ==
  /\ AtArchive
  /\ \E arch \in Arches :
     \E pullspecs \in PullspecLists(ose_prefixed_images[i], arch),
        digest \in Digests(ose_prefixed_images[i], arch) :
       LET build == latest_builds[i][1]
           tag_name == DisplayTag(ose_prefixed_images[i])
           mirroring_value == MirroringValue(build, pullspecs, digest)
           public == AddToPublic(build, embargoed_build_ids)
           private == AddToPrivate(build, embargoed_build_ids)
           m1 == IF public THEN SetEntry(mirroring, PlainKey(arch), tag_name, mirroring_value)
                 ELSE mirroring
           o1 == IF public THEN Inserted(key_order, PlainKey(arch)) ELSE key_order
       IN /\ PullspecsUsable(pullspecs)
          /\ DigestRecognized(digest)
          /\ bad_digests' = IF digest[1] = "sha256" THEN bad_digests
                            ELSE bad_digests \cup {"mirrored"}
          /\ mirroring' = IF private
                          THEN SetEntry(m1, PrivKey(arch), tag_name, mirroring_value)
                          ELSE m1
          /\ key_order' = IF private THEN Inserted(o1, PrivKey(arch)) ELSE o1
  /\ archive_idx' = archive_idx + 1
  /\ UNCHANGED <<pc, input_vars, filter_vars, emb_vars, i, lstate, no_build_items, out_vars>>

\* lines 145-146: every archive of the image was added
PlanImageSuccess ==
  /\ pc = "plan"
  /\ i <= Len(ose_prefixed_images)
  /\ latest_builds[i] # <<>> /\ archives_list[i] # <<>>
  /\ archive_idx > Len(archives_list[i])
  /\ lstate' = RecordSuccess(lstate, ose_prefixed_images[i])
  /\ NextImage
  /\ UNCHANGED <<pc, input_vars, filter_vars, emb_vars, mirroring, key_order,
                 bad_digests, no_build_items, out_vars>>

\* line 151: the image loop is over, the key loop starts
PlanDone ==
  /\ pc = "plan"
  /\ i > Len(ose_prefixed_images)
  /\ pc' = IF key_order = <<>> THEN "done" ELSE "write_mirror"
  /\ UNCHANGED <<input_vars, filter_vars, emb_vars, plan_vars, out_vars>>

\* ------------------------------------------------------------- output files
\* lines 152-153
IsPrivate(key) == EndsWith(key, <<"-priv">>)
ArchOfKey(key) == IF IsPrivate(key) THEN SubSeq(key, 1, Len(key) - 1) ELSE key

\* lines 157-163
TargetIsName(key) ==
  IF ArchOfKey(key) # <<"x86_64">> THEN is_name \o <<"-">> \o ArchOfKey(key) ELSE is_name
TargetIsNamespace(key) ==
  LET ns == IF ArchOfKey(key) # <<"x86_64">> THEN is_namespace \o <<"-">> \o ArchOfKey(key)
            ELSE is_namespace
  IN IF IsPrivate(key) THEN ns \o <<"-priv">> ELSE ns

\* lines 165-168
build_dest_name(m, key, tag_name) ==
  <<"quay.io/">> \o orgrepo \o <<":">> \o Replace(m[key][tag_name].digest, ":", "-")

\* iteration order of mirroring[key]: tags enter a key's dict in inventory order
AllTags == [n \in 1..NumOse |-> DisplayTag(OsePrefixed(ImageNames)[n])]
TagsOf(m, key) == SelectSeq(AllTags, LAMBDA t : t \in DOMAIN m[key])

\* lines 172-175
MirrorLines(m, key) ==
  LET tags == TagsOf(m, key)
  IN [n \in 1..Len(tags) |->
        m[key][tags[n]].image_src \o <<"=">> \o build_dest_name(m, key, tags[n]) \o <<"\n">>]

TagSpec(tag_name, dest) ==
  [name |-> tag_name, from |-> [kind |-> "DockerImage", name |-> dest]]

\* lines 196-203
NativeTags(m, key) ==
  LET tags == TagsOf(m, key)
  IN [n \in 1..Len(tags) |-> TagSpec(tags[n], build_dest_name(m, key, tags[n]))]

\* line 230
ReferenceKey(key) == IF IsPrivate(key) THEN <<"x86_64", "-priv">> ELSE <<"x86_64">>
ExtraTagsMutant(m, key) == {}
ExtraTags(m, key) == DOMAIN m[ReferenceKey(key)] \ DOMAIN m[key]

\* lines 231-239, for the extra tags taken in the order `order`
FallbackTags(m, key, order) ==
  [n \in 1..Len(order) |-> TagSpec(order[n], build_dest_name(m, key, <<"cli">>))]

\* the orders in which a Python set may be iterated
Orders(S) == {s \in [1..Cardinality(S) -> S] : \A x \in S : \E n \in DOMAIN s : s[n] = x}

\* lines 184-194
ImageStream(key, tag_list) ==
  [kind |-> "ImageStream", apiVersion |-> "image.openshift.io/v1",
   metadata |-> [name |-> TargetIsName(key), namespace |-> TargetIsNamespace(key)],
   spec |-> [tags |-> tag_list]]

\* line 225: a missing cli is tolerated for this key
MissingCliToleratedMutant(key) == public_upstreams
MissingCliTolerated(key) == public_upstreams /\ ~IsPrivate(key)

AtKey(at) ==
  /\ pc = at
  /\ key_idx <= Len(key_order)

\* a file as io.open(..., 'w+') leaves it when `docs` were written to it
PutFile(files, key, docs) ==
  [x \in DOMAIN files \cup {key} |-> IF x = key THEN docs ELSE files[x]]

\* lines 172-175: src_dest.{key} is written
WriteMirrorFile ==
  /\ AtKey("write_mirror")
  /\ mirror_files' = PutFile(mirror_files, key_order[key_idx], MirrorLines(mirroring, key_order[key_idx]))
  /\ pc' = "write_imagestream"
  /\ UNCHANGED <<input_vars, filter_vars, emb_vars, plan_vars, key_idx, is_files, warned>>

\* line 151: on to the next key, or lines 243-251 after the last one
NextKey ==
  /\ key_idx' = key_idx + 1
  /\ pc' = IF key_idx = Len(key_order) THEN "done" ELSE "write_mirror"

\* lines 177-241 when the key has a cli entry and the reference key exists
WriteImageStream ==
  /\ AtKey("write_imagestream")
  /\ LET key == key_order[key_idx]
     IN /\ <<"cli">> \in DOMAIN mirroring[key]
        /\ ReferenceKey(key) \in DOMAIN mirroring
        /\ \E order \in Orders(ExtraTags(mirroring, key)) :
             is_files' = PutFile(is_files, key,
                 << ImageStream(key, NativeTags(mirroring, key)
                                       \o FallbackTags(mirroring, key, order)) >>)
  /\ NextKey
  /\ UNCHANGED <<input_vars, filter_vars, emb_vars, plan_vars, mirror_files, warned>>

\* lines 177-241 when the key has a cli entry and mirroring has no reference
\* key: line 230 raises KeyError with the file opened and nothing dumped
WriteImageStreamKeyError ==
  /\ AtKey("write_imagestream")
  /\ LET key == key_order[key_idx]
     IN /\ <<"cli">> \in DOMAIN mirroring[key]
        /\ ReferenceKey(key) \notin DOMAIN mirroring
        /\ is_files' = PutFile(is_files, key, <<>>)
  /\ pc' = "KeyError"
  /\ UNCHANGED <<input_vars, filter_vars, emb_vars, plan_vars, key_idx, mirror_files, warned>>

\* lines 177-226 and 241: no cli entry, tolerated with a warning
WriteImageStreamWithoutCli ==
  /\ AtKey("write_imagestream")
  /\ LET key == key_order[key_idx]
     IN /\ <<"cli">> \notin DOMAIN mirroring[key]
        /\ MissingCliTolerated(key)
        /\ warned' = warned \cup {key}
        /\ is_files' = PutFile(is_files, key, << ImageStream(key, NativeTags(mirroring, key)) >>)
  /\ NextKey
  /\ UNCHANGED <<input_vars, filter_vars, emb_vars, plan_vars, mirror_files>>

\* lines 177-228: no cli entry, DoozerFatalError with the file opened and
\* nothing dumped
WriteImageStreamFatalMutant ==
  /\ AtKey("write_imagestream")
  /\ <<"cli">> \notin DOMAIN mirroring[key_order[key_idx]]
  /\ ~MissingCliTolerated(key_order[key_idx])
  /\ pc' = "DoozerFatalError"
  /\ UNCHANGED <<input_vars, filter_vars, emb_vars, plan_vars, out_vars>>
WriteImageStreamFatal ==
  /\ AtKey("write_imagestream")
  /\ LET key == key_order[key_idx]
     IN /\ <<"cli">> \notin DOMAIN mirroring[key]
        /\ ~MissingCliTolerated(key)
        /\ is_files' = PutFile(is_files, key, <<>>)
  /\ pc' = "DoozerFatalError"
  /\ UNCHANGED <<input_vars, filter_vars, emb_vars, plan_vars, key_idx, mirror_files, warned>>

Next ==
  \/ FilterImages
  \/ FilterShipped
  \/ CheckRpms
  \/ ReturnEmbargoed
  \/ PlanNoBuild
  \/ PlanPullspecFail
  \/ PlanDigestError
  \/ PlanAdd
  \/ PlanImageSuccess
  \/ PlanDone
  \/ WriteMirrorFile
  \/ WriteImageStream
  \/ WriteImageStreamKeyError
  \/ WriteImageStreamWithoutCli
  \/ WriteImageStreamFatal

Spec == Init /\ [][Next]_vars

\* -------------------------------------------------------------- properties
\* Stated over the variables: of the model they use the variables, the
\* inventory and the string helpers, not the operators that decide.
Inventory == OsePrefixed(ImageNames)
LastToken(s) == s[Len(s)]
HasReleasedTag(tags) == \E n \in 1..Len(tags) : LastToken(tags[n].name) = "-released"
IsPrivKey(key) == LastToken(key) = "-priv"
Resolved(n) == latest_builds[n] # <<>>
BuildOf(n) == latest_builds[n][1]
\* find_embargoed_builds has computed the set it is about to return
EmbargoReturned == pc = "check_rpms" /\ index > Len(suspect_archives)
\* the image loop is over and mirroring is final
PlanningOver == pc \in {"write_mirror", "write_imagestream", "done", "DoozerFatalError", "KeyError"}
\* the tag list of the manifest dumped for key
Manifest(key) == is_files[key][1].spec.tags
Dumped(key) == key \in DOMAIN is_files /\ is_files[key] # <<>>

\* C1: no entry of a public (non -priv) key comes from an embargoed build: no
\* entry of its map, no line of its mirror list and no tag of its manifest
\* (native or substituted) references the digest of a build whose id is in
\* the embargoed set.
C1_NoEmbargoedInPublic ==
  \A key \in DOMAIN mirroring : ~IsPrivKey(key) =>
    \A n \in 1..NumOse : (Resolved(n) /\ BuildOf(n).id \in embargoed_build_ids) =>
      \A arch \in Arches, alg \in {"sha256", "md5"} :
        LET digest == <<alg, ":", Inventory[n][2], "@", arch>>
            dashed == <<alg, "-", Inventory[n][2], "@", arch>>
        IN /\ \A t \in DOMAIN mirroring[key] : mirroring[key][t].digest # digest
           /\ key \in DOMAIN mirror_files =>
                \A l \in 1..Len(mirror_files[key]) : ~Contains(mirror_files[key][l], dashed)
           /\ Dumped(key) =>
                \A t \in 1..Len(Manifest(key)) : ~Contains(Manifest(key)[t].from.name, dashed)

\* C1 witness: the run is over, an embargoed build is in the private x86_64
\* map, and the public x86_64 files were written.
C1_Witness ==
  /\ pc = "done"
  /\ \E n \in 1..NumOse :
       /\ Resolved(n) /\ BuildOf(n).id \in embargoed_build_ids
       /\ <<"x86_64", "-priv">> \in DOMAIN mirroring
       /\ <<Inventory[n][2]>> \in DOMAIN mirroring[<<"x86_64", "-priv">>]
  /\ <<"x86_64">> \in DOMAIN mirror_files
  /\ Dumped(<<"x86_64">>)

\* C2: a build with a tag ending in -released is never in the embargoed set,
\* whatever its release string and whatever rpms its archives hold.
C2_ShippedNeverEmbargoed ==
  \A n \in 1..NumOse :
    (Resolved(n) /\ HasReleasedTag(builds_tags[BuildOf(n).id]))
      => BuildOf(n).id \notin embargoed_build_ids

\* C2 witness: find_embargoed_builds is over; a shipped build has a release
\* ending .p1 and archives holding an unshipped .p1 rpm, and another build is
\* embargoed.
C2_Witness ==
  /\ EmbargoReturned
  /\ embargoed_build_ids # {}
  /\ \E n \in 1..NumOse :
       /\ Resolved(n) /\ HasReleasedTag(builds_tags[BuildOf(n).id])
       /\ LastToken(BuildOf(n).release) = ".p1"
       /\ BuildOf(n).id \in holds_unshipped_rpm

\* C3 as stated: every generated manifest has, for every tag of the reference
\* key's map that its own map lacks, a tag of that name pointing at the
\* destination of its own cli entry.
RefOf(key) == IF IsPrivKey(key) THEN <<"x86_64", "-priv">> ELSE <<"x86_64">>
RefTags(key) == IF RefOf(key) \in DOMAIN mirroring THEN DOMAIN mirroring[RefOf(key)] ELSE {}
MissingTags(key) == RefTags(key) \ DOMAIN mirroring[key]
OwnCliDest(key) ==
  LET d == mirroring[key][<<"cli">>].digest
  IN <<"quay.io/", "openshift-release-dev", "/", "ocp-v4.0-art-dev", ":", d[1], "-">>
       \o SubSeq(d, 3, Len(d))
HasSubstitute(key, t) ==
  /\ <<"cli">> \in DOMAIN mirroring[key]
  /\ \E n \in 1..Len(Manifest(key)) :
       /\ Manifest(key)[n].name = t
       /\ Manifest(key)[n].from.name = OwnCliDest(key)
C3_Original ==
  \A key \in DOMAIN is_files : Dumped(key) => \A t \in MissingTags(key) : HasSubstitute(key, t)

\* C3 amended: every generated manifest of a key whose map has a cli entry
\* has, for every tag of the reference key's map that its own map lacks, a
\* tag of that name pointing at the destination of its own cli entry, and so
\* carries every tag name of the reference key's map.
C3_SubstituteWhenCli ==
  \A key \in DOMAIN is_files :
    (Dumped(key) /\ <<"cli">> \in DOMAIN mirroring[key]) =>
      /\ \A t \in MissingTags(key) : HasSubstitute(key, t)
      /\ \A t \in RefTags(key) : \E n \in 1..Len(Manifest(key)) : Manifest(key)[n].name = t

\* C3 witness: a manifest was generated for a key that has cli and lacks a
\* tag of the reference key.
C3_Witness ==
  \E key \in DOMAIN is_files :
    Dumped(key) /\ <<"cli">> \in DOMAIN mirroring[key] /\ MissingTags(key) # {}

\* C4: after planning, an image recorded as a failure has no entry under its
\* display tag in any key's map, and every image of the inventory was
\* processed.
C4_FailedImageNotMirrored ==
  PlanningOver =>
    /\ \A image \in lstate.failure : \A key \in DOMAIN mirroring :
         SubSeq(image, 2, Len(image)) \notin DOMAIN mirroring[key]
    /\ lstate.failure \cup lstate.success = {Inventory[n] : n \in 1..NumOse}

\* C5 as stated: when a key has no cli entry, a run with the feature enabled
\* and the key public completes and the manifest has no cli tag; otherwise
\* the run aborts with the fatal error.
Tolerated(key) == public_upstreams /\ ~IsPrivKey(key)
LacksCli(key) == <<"cli">> \notin DOMAIN mirroring[key]
NoCliTag(key) == \A n \in 1..Len(Manifest(key)) : Manifest(key)[n].name # <<"cli">>
C5_Original ==
  pc \in {"done", "DoozerFatalError"} =>
    \A key \in DOMAIN mirroring : LacksCli(key) =>
      IF Tolerated(key)
      THEN pc = "done" /\ Dumped(key) /\ NoCliTag(key)
      ELSE pc = "DoozerFatalError"

\* C5 amended: when the manifest of a key without cli entry has been
\* generated: with the feature enabled and the key public, the warning was
\* logged, the manifest was written without cli tag and the run went on to the
\* next key; otherwise the run aborted at that key with the fatal error.
ManifestStepRun(n) ==
  n < key_idx \/ (n = key_idx /\ pc \in {"DoozerFatalError", "KeyError"})
C5_PerKey ==
  PlanningOver =>
    \A n \in 1..Len(key_order) :
      LET key == key_order[n]
      IN (LacksCli(key) /\ ManifestStepRun(n)) =>
           IF Tolerated(key)
           THEN n < key_idx /\ key \in warned /\ Dumped(key) /\ NoCliTag(key)
           ELSE n = key_idx /\ pc = "DoozerFatalError" /\ ~Dumped(key)

\* C5 witness: a run that completed after the warning.
C5_Witness ==
  /\ pc = "done"
  /\ \E key \in warned : LacksCli(key) /\ Dumped(key)

\* C6 as stated: if any archive of an image with a resolved build has a
\* digest without the sha256: prefix, the run aborts: no run that read such an
\* archive completes.
C6_Original == pc = "done" => bad_digests = {}

\* C6 amended: an archive with a usable pullspec whose digest lacks the
\* sha256: prefix aborts the run, with no failure recorded for the image, and
\* every entry of every map has a digest beginning with sha256:.
C6_ExaminedDigestAborts ==
  /\ "examined" \in bad_digests =>
       pc = "ValueError" /\ ose_prefixed_images[i] \notin lstate.failure
  /\ \A key \in DOMAIN mirroring : \A t \in DOMAIN mirroring[key] :
       mirroring[key][t].digest[1] = "sha256" /\ mirroring[key][t].digest[2] = ":"

\* C6 witness: the run aborted on a digest after entries were placed.
C6_Witness == pc = "ValueError" /\ DOMAIN mirroring # {}

\* C7 as stated: a build whose release ends .p0 is embargoed iff one of its
\* archives holds an rpm with .p1 in its release whose build is not shipped.
C7_Original ==
  EmbargoReturned =>
    \A n \in 1..NumOse :
      (Resolved(n) /\ LastToken(BuildOf(n).release) = ".p0") =>
        (BuildOf(n).id \in embargoed_build_ids <=> BuildOf(n).id \in holds_unshipped_rpm)

\* C7 amended: a build without a tag ending -released whose release ends .p0
\* is embargoed iff one of its archives holds an rpm with .p1 in its release
\* whose build is not shipped.
C7_UnshippedP0 ==
  EmbargoReturned =>
    \A n \in 1..NumOse :
      (/\ Resolved(n)
       /\ LastToken(BuildOf(n).release) = ".p0"
       /\ ~HasReleasedTag(builds_tags[BuildOf(n).id])) =>
        (BuildOf(n).id \in embargoed_build_ids <=> BuildOf(n).id \in holds_unshipped_rpm)

\* C7 witness: two unshipped .p0 builds with archives, one embargoed by its
\* rpms and one not.
C7_Witness ==
  /\ EmbargoReturned
  /\ \A n \in 1..NumOse :
       /\ Resolved(n) /\ archives_list[n] # <<>>
       /\ LastToken(BuildOf(n).release) = ".p0"
       /\ ~HasReleasedTag(builds_tags[BuildOf(n).id])
  /\ embargoed_build_ids = {1}

\* the places of rpm build p in the batches sent to the tag query
Submissions(p) ==
  UNION { {<<b, n>> : n \in {m \in 1..Len(tag_queries[b]) : tag_queries[b][m] = p}} :
          b \in 1..Len(tag_queries) }
BatchesWith(p) == {b \in 1..Len(tag_queries) : \E n \in 1..Len(tag_queries[b]) : tag_queries[b][n] = p}
SubmittedOnce == \A p \in PkgBuildIds : Cardinality(Submissions(p)) <= 1
InOneBatch == \A p \in PkgBuildIds : Cardinality(BatchesWith(p)) <= 1
\* during the call, an entry of the cache stays and keeps its value
CacheKept ==
  pc' = "check_rpms" =>
    \A p \in DOMAIN rpm_shipping_statuses :
      /\ p \in DOMAIN rpm_shipping_statuses'
      /\ rpm_shipping_statuses'[p] = rpm_shipping_statuses[p]

\* C8 as stated: each rpm build id is submitted to the tag query at most once
\* in total, counting every occurrence in every batch, and a cache entry
\* never changes.
C8_Original == [][SubmittedOnce' /\ CacheKept]_vars

\* C8 amended: each rpm build id is submitted to the tag query in at most one
\* batch, and a cache entry never changes.
C8_OneBatch == [][InOneBatch' /\ CacheKept]_vars

\* C8 witness: both image builds were read and hold an unshipped .p1 rpm, only
\* one rpm build is unshipped, and it was submitted in one batch, twice.
C8_Witness ==
  /\ pc = "check_rpms"
  /\ \A n \in 1..NumOse :
       /\ Resolved(n) /\ LastToken(BuildOf(n).release) = ".p0"
       /\ ~HasReleasedTag(builds_tags[BuildOf(n).id])
       /\ BuildOf(n).id \in holds_unshipped_rpm
  /\ \E p \in PkgBuildIds :
       /\ ~HasReleasedTag(builds_tags[p])
       /\ \A q \in PkgBuildIds \ {p} : HasReleasedTag(builds_tags[q])
       /\ Cardinality(BatchesWith(p)) = 1
       /\ Cardinality(Submissions(p)) = 2

C10_Original ==
  pc \in {"ValueError", "DoozerFatalError"} =>
    DOMAIN mirror_files = {} /\ DOMAIN is_files = {}

\* C10 amended: at a digest error no file exists; at the missing-cli error
\* both files exist for every key up to the failing one and for no later key,
\* the mirror lists are complete, the earlier manifests are written and the
\* failing key's manifest file is empty.
C10_FilesAtAbort ==
  /\ pc = "ValueError" => DOMAIN mirror_files = {} /\ DOMAIN is_files = {}
  /\ pc = "DoozerFatalError" =>
       LET upto == {key_order[n] : n \in 1..key_idx}
       IN /\ DOMAIN mirror_files = upto
          /\ DOMAIN is_files = upto
          /\ is_files[key_order[key_idx]] = <<>>
          /\ \A n \in 1..(key_idx - 1) : is_files[key_order[n]] # <<>>
          /\ \A key \in upto : Len(mirror_files[key]) = Cardinality(DOMAIN mirroring[key])

\* C10 witness: the missing-cli error at a key that is not the first.
C10_Witness == pc = "DoozerFatalError" /\ key_idx > 1
====
